---- MODULE Spec2Model ----
(***************************************************************************)
(* HOG descriptor pipeline of src/src/hog_descriptor.py:                   *)
(*   compute_image_gradients, compute_magnitudes_and_orientations,         *)
(*   create_histogram, create_image_histograms, create_descriptor.         *)
(*                                                                         *)
(* Numbers.  Pixels are integers, so gradients, magnitudes and histogram   *)
(* weights are exact integers.  Angles are float32 values, held exactly as *)
(* integers in units of 2^-26 rad.  A normalised block vector is kept as   *)
(* its numerators together with the square of the norm it was divided by,  *)
(* so that "Euclidean norm 1" is an exact integer equation.                *)
(*                                                                         *)
(* Arrays.  A numpy array is a record [shape, dims, at]: shape is the numpy *)
(* shape (a sequence of dimensions), dims the <<rows, cols>> of its 2-D    *)
(* layout and at maps the 0-based (row, col) position to the element.      *)
(* shape and dims differ only after a squeeze.  A Python exception is the  *)
(* status of a result.                                                     *)
(***************************************************************************)
EXTENDS Integers, Sequences, FiniteSets, TLC

\* ------------------------------------------------------------------ bounds
MaxDim == 4          \* images have 1..MaxDim rows and columns
MaxGrid == 5         \* input histogram grids have 1..MaxGrid cell rows/columns
MaxBins == 2         \* input histogram grids have 1..MaxBins bins
MaxStep == 2         \* step sizes 1..MaxStep
MaxUnits == 4        \* unit-by-unit runs have at most MaxUnits cells/blocks
MinCell == 2         \* cell sizes range over -MinCell .. MaxDim+1

PixelValues == {0, 1}

\* ------------------------------------------------------- Python arithmetic
Abs(x) == IF x < 0 THEN -x ELSE x

\* Python's a % b for b # 0 (the result has the sign of b).
PyMod(a, b) == IF b > 0 THEN a % b ELSE -((-a) % (-b))

\* Python's a // b for b # 0 (floor division).
PyFloorDiv(a, b) == IF b > 0 THEN a \div b ELSE (-a) \div (-b)

\* range(n): empty when n <= 0.
Range(n) == 0 .. (n - 1)

RECURSIVE SumOver(_, _)
SumOver(f, S) ==
    IF S = {} THEN 0
    ELSE LET x == CHOOSE y \in S : TRUE IN f[x] + SumOver(f, S \ {x})

\* The sum f[lo] + ... + f[hi].
RECURSIVE SumRange(_, _, _)
SumRange(f, lo, hi) ==
    IF lo > hi THEN 0
    ELSE IF lo = hi THEN f[lo]
    ELSE LET mid == (lo + hi) \div 2
         IN  SumRange(f, lo, mid) + SumRange(f, mid + 1, hi)

\* The sum of f[0] + ... + f[n-1].
SumTo(f, n) == SumRange(f, 0, n - 1)

RECURSIVE Gcd(_, _)
Gcd(a, b) == IF b = 0 THEN a ELSE Gcd(b, a % b)

\* ------------------------------------------------------------------ arrays
Rows(arr) == arr.shape[1]
Cols(arr) == arr.shape[2]
Positions(n, m) == Range(n) \X Range(m)

\* An array's elements are computed once, when the array is made: the function
\* f itself, tabulated.
Stored(f) == f @@ << >>

\* torch.squeeze: every dimension of size 1 is removed from the shape; the
\* elements stay (at keeps their (row, col) position in the 2-D layout).
squeeze(arr) ==
    [shape |-> SelectSeq(arr.shape, LAMBDA d : d # 1),
     at |-> arr.at, dims |-> arr.dims]

\* ------------------------------------------------- compute_image_gradients
SOBEL_X_KERNEL == << <<-1, 0, 1>>, <<-2, 0, 2>>, <<-1, 0, 1>> >>
SOBEL_Y_KERNEL == << <<1, 2, 1>>, <<0, 0, 0>>, <<-1, -2, -1>> >>

\* Variant: no padding.
PaddingNone(kernel) == 0

\* px, py: the padding that keeps the image dimensions.
Padding(kernel) == (Len(kernel) - 1) \div 2

\* Variant: the kernel is flipped in both directions (a true convolution).
conv2d_flipped(input, kernel, padding) ==
    LET k == Len(kernel)
        H == Rows(input) + 2 * padding - k + 1
        W == Cols(input) + 2 * padding - k + 1
        P(r, c) == IF /\ 0 <= r - padding /\ r - padding < Rows(input)
                      /\ 0 <= c - padding /\ c - padding < Cols(input)
                   THEN input.at[<<r - padding, c - padding>>] ELSE 0
        Row(a, r, c) == kernel[k + 1 - a][3] * P(r + a - 1, c)
                      + kernel[k + 1 - a][2] * P(r + a - 1, c + 1)
                      + kernel[k + 1 - a][1] * P(r + a - 1, c + 2)
    IN  IF H <= 0 \/ W <= 0
        THEN [status |-> "RuntimeError"]
        ELSE [status |-> "ok", shape |-> <<H, W>>, dims |-> <<H, W>>,
              at |-> [p \in Positions(H, W) |->
                        Row(1, p[1], p[2]) + Row(2, p[1], p[2]) + Row(3, p[1], p[2])]]

\* nn.functional.conv2d(input, kernel, padding) for one channel, stride 1:
\* the input is surrounded by `padding` zeros on each side and the kernel is
\* slid over it without being flipped (cross-correlation).  Fails when the
\* padded input is smaller than the kernel.
conv2d(input, kernel, padding) ==
    LET k == Len(kernel)
        H == Rows(input) + 2 * padding - k + 1
        W == Cols(input) + 2 * padding - k + 1
        P(r, c) == IF /\ 0 <= r - padding /\ r - padding < Rows(input)
                      /\ 0 <= c - padding /\ c - padding < Cols(input)
                   THEN input.at[<<r - padding, c - padding>>] ELSE 0
        Row(a, r, c) == kernel[a][1] * P(r + a - 1, c)
                      + kernel[a][2] * P(r + a - 1, c + 1)
                      + kernel[a][3] * P(r + a - 1, c + 2)
    IN  IF H <= 0 \/ W <= 0
        THEN [status |-> "RuntimeError"]
        ELSE [status |-> "ok", shape |-> <<H, W>>, dims |-> <<H, W>>,
              at |-> [p \in Positions(H, W) |->
                        Row(1, p[1], p[2]) + Row(2, p[1], p[2]) + Row(3, p[1], p[2])]]

compute_image_gradients(img_gray) ==
    LET cx == conv2d(img_gray, SOBEL_X_KERNEL, Padding(SOBEL_X_KERNEL))
        cy == conv2d(img_gray, SOBEL_Y_KERNEL, Padding(SOBEL_Y_KERNEL))
    IN  IF cx.status # "ok" THEN [status |-> cx.status]
        ELSE IF cy.status # "ok" THEN [status |-> cy.status]
        ELSE [status |-> "ok", Ix |-> squeeze(cx), Iy |-> squeeze(cy)]

\* ------------------------------------- compute_magnitudes_and_orientations
\* Angles.  Ix and Iy are float32 arrays, so np.arctan2 and np.around work in
\* float32.  A float32 angle is held exactly, as an integer number of 2^-26
\* rad: every float32 of magnitude in [2^-3, 2^5) is such a number, and the
\* orientations of PixelValues images are 0 or at least arctan(1/4) > 2^-3.
\* The float64 bin ticks are held to within one unit; an orientation rounded
\* to 5 decimals is more than 50 units away from every tick, so it falls on
\* the same side of the model's tick as of the code's.

\* np.pi, in units of 2^-26 rad.
Pi == 210828714

\* atan2f(y, x) in units of 2^-26 rad, for y >= 0 and (y, x) in lowest terms:
\* the directions that gradients of PixelValues images take (|Ix|, |Iy| <= 4).
\* The values are those of the C library's atan2f, which np.arctan2 calls on
\* float32 operands; atan2f(0, -1) is the float32 nearest to pi.
ArctanTable ==
    ( <<0, 1>> :> 0 )          @@ ( <<0, -1>> :> 210828720 ) @@
    ( <<1, 0>> :> 105414360 )  @@
    ( <<1, 1>> :> 52707180 )   @@ ( <<1, -1>> :> 158121536 ) @@
    ( <<1, 2>> :> 31114864 )   @@ ( <<1, -2>> :> 179713856 ) @@
    ( <<1, 3>> :> 21592314 )   @@ ( <<1, -3>> :> 189236400 ) @@
    ( <<1, 4>> :> 16440240 )   @@ ( <<1, -4>> :> 194388480 ) @@
    ( <<2, 1>> :> 74299496 )   @@ ( <<2, -1>> :> 136529216 ) @@
    ( <<2, 3>> :> 39460188 )   @@ ( <<2, -3>> :> 171368528 ) @@
    ( <<3, 1>> :> 83822040 )   @@ ( <<3, -1>> :> 127006672 ) @@
    ( <<3, 2>> :> 65954172 )   @@ ( <<3, -2>> :> 144874544 ) @@
    ( <<3, 4>> :> 43184628 )   @@ ( <<3, -4>> :> 167644096 ) @@
    ( <<4, 1>> :> 88974120 )   @@ ( <<4, -1>> :> 121854592 ) @@
    ( <<4, 3>> :> 62229728 )   @@ ( <<4, -3>> :> 148598992 )

\* atan2f(y, x) for y >= 0, (y, x) # (0, 0): the angle depends on the
\* direction of (x, y) only.
Arctan(y, x) == LET g == Gcd(y, Abs(x)) IN ArctanTable[<<y \div g, x \div g>>]

\* np.arctan2(y, x): the angle of the vector (x, y), in [-pi, pi];
\* arctan2(0, 0) = 0, arctan2(0, x) = pi for x < 0 and
\* arctan2(-y, x) = -arctan2(y, x).
arctan2(y, x) ==
    IF x = 0 /\ y = 0 THEN 0
    ELSE IF y >= 0 THEN Arctan(y, x)
    ELSE -Arctan(-y, x)

compute_magnitudes_and_orientations(image_gray) ==
    LET g == compute_image_gradients(image_gray)
    IN  IF g.status # "ok" THEN [status |-> g.status]
        ELSE [status |-> "ok",
              orientation |->
                  [shape |-> g.Ix.shape, dims |-> g.Ix.dims,
                   at |-> [p \in DOMAIN g.Ix.at |-> arctan2(g.Iy.at[p], g.Ix.at[p])]],
              grad_magnitude |->
                  [shape |-> g.Ix.shape, dims |-> g.Ix.dims,
                   at |-> [p \in DOMAIN g.Ix.at |->
                             g.Ix.at[p] * g.Ix.at[p] + g.Iy.at[p] * g.Iy.at[p]]]]

\* -------------------------------------------------------- create_histogram
\* The number of binary digits of n >= 0.
RECURSIVE BitLen(_)
BitLen(n) == IF n = 0 THEN 0 ELSE 1 + BitLen(n \div 2)

\* n / d rounded to the nearest integer, halves to the even one (n >= 0, d > 0).
RoundHalfEven(n, d) ==
    LET q == n \div d
        r == n % d
    IN  IF 2 * r > d \/ (2 * r = d /\ q % 2 = 1) THEN q + 1 ELSE q

\* The float32 product of a float32 a >= 0 (in units of 2^-26) and f = 10^d,
\* d <= 5.  The exact product is P / 2^26 with P = a * f = H * 2^14 + R; a
\* float32 keeps 24 binary digits of it, rounded halves to even.  The result
\* is mant * 2^drop / 2^26.
float32_multiply(a, f) ==
    LET hi == a \div 2 ^ 14
        lo == a % 2 ^ 14
        H == hi * f + (lo * f) \div 2 ^ 14
        R == (lo * f) % 2 ^ 14
        len == IF H > 0 THEN BitLen(H) + 14 ELSE BitLen(R)
        drop == IF len > 24 THEN len - 24 ELSE 0
        q == IF drop >= 14 THEN H \div 2 ^ (drop - 14)
             ELSE H * 2 ^ (14 - drop) + R \div 2 ^ drop
        rem == IF drop >= 14 THEN (H % 2 ^ (drop - 14)) * 2 ^ 14 + R
               ELSE R % 2 ^ drop
        up == 2 * rem > 2 ^ drop \/ (2 * rem = 2 ^ drop /\ q % 2 = 1)
    IN  [mant |-> IF up THEN q + 1 ELSE q, drop |-> drop]

\* np.rint of the float32 p.mant * 2^p.drop / 2^26: the nearest integer,
\* halves to even.
rint(p) == RoundHalfEven(p.mant, 2 ^ (26 - p.drop))

\* k / f = (q + r / f) / 2^s, with s raised until q has 24 binary digits or
\* 2^-s is the unit.
RECURSIVE Quotient(_, _, _, _)
Quotient(q, r, f, s) ==
    IF q >= 2 ^ 23 \/ s = 26 THEN [q |-> q, r |-> r, s |-> s]
    ELSE Quotient(2 * q + (2 * r) \div f, (2 * r) % f, f, s + 1)

\* The float32 quotient k / f of an integer k >= 0 and f = 10^d, in units of
\* 2^-26: 24 binary digits of the exact quotient, rounded halves to even
\* (exact for quotients that are 0 or at least 2^-3).
float32_divide(k, f) ==
    LET e == Quotient(k \div f, k % f, f, 0)
        up == 2 * e.r > f \/ (2 * e.r = f /\ e.q % 2 = 1)
    IN  (IF up THEN e.q + 1 ELSE e.q) * 2 ^ (26 - e.s)

\* np.around(x, decimals) of a float32 x, decimals >= 0: x is multiplied by
\* 10^decimals, rounded to the nearest integer (halves to even) and divided
\* by 10^decimals, each step in float32.  x and the result are in units of
\* 2^-26.
around(x, decimals) ==
    LET f == 10 ^ decimals
        v == float32_divide(rint(float32_multiply(Abs(x), f)), f)
    IN  IF x < 0 THEN -v ELSE v

\* np.linspace(start, stop, num): num evenly spaced values, both ends
\* included: start + k * (stop - start) / (num - 1).
linspace(start, stop, num) ==
    LET div == num - 1
        delta == stop - start
    IN  [k \in Range(num) |->
            start + k * (delta \div div) + (k * (delta % div)) \div div]

\* np.histogram(values, bins, weights)[0]: bin k is [bins[k], bins[k+1]), the
\* last bin is closed on both ends; a value outside every bin adds nothing.
InBin(v, bins, k) ==
    /\ bins[k] <= v
    /\ IF k + 1 = Cardinality(DOMAIN bins) - 1 THEN v <= bins[k + 1] ELSE v < bins[k + 1]

np_histogram(values, bins, weights) ==
    Stored([k \in Range(Cardinality(DOMAIN bins) - 1) |->
        SumOver(weights, {p \in DOMAIN values : InBin(values[p], bins, k)})])

create_histogram(cell_magnitudes, cell_orientations, num_bins) ==
    LET bin_ticks == Stored(linspace(-Pi - Pi \div 8, Pi - Pi \div 8, num_bins + 1))
        rounded == Stored([p \in DOMAIN cell_orientations |->
                              around(cell_orientations[p], 5)])
    IN  [histogram |-> np_histogram(rounded, bin_ticks, cell_magnitudes),
         bin_ticks |-> bin_ticks]

\* -------------------------------------------------- create_image_histograms
None == "None"
num_bins == 8

\* np.zeros(shape): fails on a negative dimension.
zeros_status(shape) ==
    IF \E n \in 1..Len(shape) : shape[n] < 0 THEN "ValueError" ELSE "ok"

\* Variant: only the columns are checked.
assert_aligned_columns_only(N, M, cell_size) ==
    IF cell_size = 0 THEN "ZeroDivisionError"
    ELSE IF PyMod(M, cell_size) # 0 THEN "AssertionError"
    ELSE "ok"

\* Variant: the assertions are not checked.
assert_aligned_disabled(N, M, cell_size) ==
    IF cell_size = 0 THEN "ZeroDivisionError" ELSE "ok"

\* assert M % cell_size == 0; assert N % cell_size == 0
assert_aligned(N, M, cell_size) ==
    IF cell_size = 0 THEN "ZeroDivisionError"
    ELSE IF PyMod(M, cell_size) # 0 THEN "AssertionError"
    ELSE IF PyMod(N, cell_size) # 0 THEN "AssertionError"
    ELSE "ok"

\* histogram_grid = np.zeros((M//cell_size, M//cell_size, num_bins))
histogram_grid_shape(N, M, cell_size) ==
    <<PyFloorDiv(M, cell_size), PyFloorDiv(M, cell_size), num_bins>>

\* for i in range(M//cell_size): for j in range(N//cell_size): the units
\* (i, j) in the order the loops visit them.
cell_units(N, M, cell_size) ==
    LET ni == PyFloorDiv(M, cell_size)
        nj == PyFloorDiv(N, cell_size)
    IN  IF ni <= 0 \/ nj <= 0 THEN << >>
        ELSE [n \in 1..(ni * nj) |-> <<(n - 1) \div nj, (n - 1) % nj>>]

\* arr[i*cell_size : (i+1)*cell_size, j*cell_size : (j+1)*cell_size]: the
\* positions of the slice; a slice is clipped to the array.
cell_slice(arr, cell_size, i, j) ==
    {p \in DOMAIN arr.at :
        /\ i * cell_size <= p[1] /\ p[1] < (i + 1) * cell_size
        /\ j * cell_size <= p[2] /\ p[2] < (j + 1) * cell_size}

\* The state of a call between its loop iterations.
cells_begin(image_gray, cell_size) ==
    LET N == Rows(image_gray)
        M == Cols(image_gray)
        mo == compute_magnitudes_and_orientations(image_gray)
        aligned == assert_aligned(N, M, cell_size)
        shape == histogram_grid_shape(N, M, cell_size)
    IN  IF mo.status # "ok" THEN [status |-> mo.status]
        ELSE IF aligned # "ok" THEN [status |-> aligned]
        ELSE IF zeros_status(shape) # "ok" THEN [status |-> zeros_status(shape)]
        ELSE [status |-> "ok",
              shape |-> shape,
              histogram_grid |-> [u \in Positions(shape[1], shape[2]) |->
                                     [k \in Range(shape[3]) |-> 0]],
              bin_ticks |-> None]

\* Variant: every cell of a row is stored in column 0.
cell_slot_column_zero(u) == <<u[1], 0>>

\* The slot a cell's histogram is stored in: histogram_grid[i, j].
cell_slot(u) == <<u[1], u[2]>>

\* One iteration of the loop body, for the cell u = (i, j); mo is the
\* (orientation, grad_magnitude) pair computed before the loop.
cell_unit(st, mo, cell_size, u) ==
    LET sl == cell_slice(mo.orientation, cell_size, u[1], u[2])
        h == create_histogram([p \in sl |-> mo.grad_magnitude.at[p]],
                              [p \in sl |-> mo.orientation.at[p]], num_bins)
    IN  IF st.status # "ok" THEN st
        ELSE IF Len(mo.orientation.shape) # 2 THEN [status |-> "IndexError"]
        ELSE IF cell_slot(u) \notin DOMAIN st.histogram_grid
             THEN [status |-> "IndexError"]
        ELSE [st EXCEPT !.histogram_grid[cell_slot(u)] = h.histogram,
                        !.bin_ticks = h.bin_ticks]

RECURSIVE cells_loop(_, _, _, _, _)
cells_loop(st, mo, cell_size, units, n) ==
    IF n > Len(units) \/ st.status # "ok" THEN st
    ELSE cells_loop(cell_unit(st, mo, cell_size, units[n]),
                    mo, cell_size, units, n + 1)

create_image_histograms(image_gray, cell_size) ==
    LET N == Rows(image_gray)
        M == Cols(image_gray)
    IN  cells_loop(cells_begin(image_gray, cell_size),
                   compute_magnitudes_and_orientations(image_gray), cell_size,
                   IF cell_size = 0 THEN << >> ELSE cell_units(N, M, cell_size), 1)

\* --------------------------------------------------------- create_descriptor
\* A histogram grid is [shape |-> <<R, C, B>>, at |-> (i, j) -> histogram].
default_block_size == 2
default_step_size == 1

\* Variant: `or` in place of `and`.
assert_block_either(M, N, block_size) ==
    IF (block_size <= M) \/ (block_size <= N) THEN "ok" ELSE "AssertionError"

\* assert (block_size <= M) and (block_size <= N)
assert_block(M, N, block_size) ==
    IF (block_size <= M) /\ (block_size <= N) THEN "ok" ELSE "AssertionError"

\* m = (len(histogram_grid) - (block_size-1)) // step_size, and n likewise
\* from len(histogram_grid[0]); the block vectors have B * block_size**2
\* elements.
block_grid_shape(M, N, B, block_size, step_size) ==
    <<PyFloorDiv(M - (block_size - 1), step_size),
      PyFloorDiv(N - (block_size - 1), step_size),
      B * block_size * block_size>>

block_units(shape) ==
    IF shape[1] <= 0 \/ shape[2] <= 0 THEN << >>
    ELSE [n \in 1..(shape[1] * shape[2]) |->
            <<(n - 1) \div shape[2], (n - 1) % shape[2]>>]

\* Variant: the window of block (i, j) starts at cell (i, j), whatever the
\* step size.
block_slice_unstrided(histogram_grid, block_size, step_size, i, j) ==
    LET rs == {r \in Range(histogram_grid.shape[1]) :
                 i <= r /\ r < i + block_size}
        cs == {c \in Range(histogram_grid.shape[2]) :
                 j <= c /\ c < j + block_size}
    IN  [shape |-> <<Cardinality(rs), Cardinality(cs), histogram_grid.shape[3]>>,
         cells |-> rs \X cs,
         at |-> [p \in Positions(Cardinality(rs), Cardinality(cs)) |->
                   histogram_grid.at[<<i + p[1], j + p[2]>>]]]

\* histogram_grid[i*step_size : i*step_size + block_size,
\*                j*step_size : j*step_size + block_size]: the window as an
\* array of its own (rows x cols x B) and the cells of the grid it is made
\* of; a slice is clipped to the grid.
block_slice(histogram_grid, block_size, step_size, i, j) ==
    LET rs == {r \in Range(histogram_grid.shape[1]) :
                 i * step_size <= r /\ r < i * step_size + block_size}
        cs == {c \in Range(histogram_grid.shape[2]) :
                 j * step_size <= c /\ c < j * step_size + block_size}
    IN  [shape |-> <<Cardinality(rs), Cardinality(cs), histogram_grid.shape[3]>>,
         cells |-> rs \X cs,
         at |-> [p \in Positions(Cardinality(rs), Cardinality(cs)) |->
                   histogram_grid.at[<<i * step_size + p[1], j * step_size + p[2]>>]]]

\* Variant: the cells are taken column by column.
flatten_column_major(block) ==
    LET nr == block.shape[1]
        nc == block.shape[2]
        B == block.shape[3]
    IN  [n \in Range(nr * nc * B) |->
            block.at[<<(n \div B) % nr, n \div (nr * B)>>][n % B]]

\* block.flatten(): the elements of the (rows x cols x B) array in C order:
\* row, then column, then bin.
flatten(block) ==
    LET nr == block.shape[1]
        nc == block.shape[2]
        B == block.shape[3]
    IN  [n \in Range(nr * nc * B) |->
            block.at[<<n \div (nc * B), (n \div B) % nc>>][n % B]]

\* np.linalg.norm(v) ** 2: the sum of the squares of the elements.
norm2(v) == SumTo([n \in DOMAIN v |-> v[n] * v[n]], Cardinality(DOMAIN v))

\* Variant: the vector is divided by the sum of its elements.
normalize_by_sum(v) ==
    LET s == SumTo(v, Cardinality(DOMAIN v))
    IN  IF s # 0 THEN [num |-> v, den2 |-> s * s, divided |-> TRUE]
        ELSE [num |-> v, den2 |-> 1, divided |-> FALSE]

\* A vector of the block grid is [num, den2, divided]: element n is
\* num[n] / sqrt(den2); divided tells whether a division was performed.
\* if np.linalg.norm(block_concat) != 0:
\*     block_concat = block_concat / np.linalg.norm(block_concat)
normalize(v) ==
    LET n2 == norm2(v)
    IN  IF n2 # 0 THEN [num |-> v, den2 |-> n2, divided |-> TRUE]
        ELSE [num |-> v, den2 |-> 1, divided |-> FALSE]

blocks_begin(histogram_grid, block_size, step_size) ==
    LET M == histogram_grid.shape[1]
        N == histogram_grid.shape[2]
        B == histogram_grid.shape[3]
        asserted == assert_block(M, N, block_size)
        shape == block_grid_shape(M, N, B, block_size, step_size)
    IN  IF asserted # "ok" THEN [status |-> asserted]
        ELSE IF zeros_status(shape) # "ok" THEN [status |-> zeros_status(shape)]
        ELSE [status |-> "ok",
              shape |-> shape,
              block_grid |-> [u \in Positions(shape[1], shape[2]) |->
                                 [num |-> [n \in Range(shape[3]) |-> 0],
                                  den2 |-> 1, divided |-> FALSE]]]

\* The slot a block's vector is stored in: block_grid[i, j].
block_slot(u) == <<u[1], u[2]>>

\* One iteration of the loop body, for the block u = (i, j).  Storing a
\* vector whose length is not the slot's fails.
block_unit(st, histogram_grid, block_size, step_size, u) ==
    LET block == block_slice(histogram_grid, block_size, step_size, u[1], u[2])
        block_concat == flatten(block)
    IN  IF st.status # "ok" THEN st
        ELSE IF block_slot(u) \notin DOMAIN st.block_grid
             THEN [status |-> "IndexError"]
        ELSE IF Cardinality(DOMAIN block_concat) # st.shape[3]
             THEN [status |-> "ValueError"]
        ELSE [st EXCEPT !.block_grid[block_slot(u)] = normalize(block_concat)]

RECURSIVE blocks_loop(_, _, _, _, _, _)
blocks_loop(st, histogram_grid, block_size, step_size, units, n) ==
    IF n > Len(units) \/ st.status # "ok" THEN st
    ELSE blocks_loop(block_unit(st, histogram_grid, block_size, step_size, units[n]),
                     histogram_grid, block_size, step_size, units, n + 1)

create_descriptor(histogram_grid, block_size, step_size) ==
    LET st == blocks_begin(histogram_grid, block_size, step_size)
    IN  IF st.status # "ok" THEN st
        ELSE blocks_loop(st, histogram_grid, block_size, step_size,
                         block_units(st.shape), 1)

\* ------------------------------------------------------------------ inputs
\* Images: every N x M image (1 <= N, M <= MaxDim) whose pixel (r, c) is
\* a[r] * b[c] for a row profile a and a column profile b over PixelValues:
\* constant images, vertical and horizontal edges, bars, rectangles, dots.
Image(N, M, a, b) ==
    [shape |-> <<N, M>>, dims |-> <<N, M>>,
     at |-> [p \in Positions(N, M) |-> a[p[1]] * b[p[2]]]]

Images ==
    UNION {{Image(N, M, a, b) : a \in [Range(N) -> PixelValues],
                                b \in [Range(M) -> PixelValues]} :
           N \in 1..MaxDim, M \in 1..MaxDim}

CellSizes == (-MinCell)..(MaxDim + 1)

\* Histogram grids given to create_descriptor directly: the all-zero grid,
\* the grid whose every bin holds a different positive number, and the grids
\* with a single non-zero bin.
ZeroGrid(R, C, B) ==
    [shape |-> <<R, C, B>>,
     at |-> [u \in Positions(R, C) |-> [k \in Range(B) |-> 0]]]

CodedGrid(R, C, B) ==
    [shape |-> <<R, C, B>>,
     at |-> [u \in Positions(R, C) |->
               [k \in Range(B) |-> 1 + k + B * (u[2] + C * u[1])]]]

SingleBinGrid(R, C, B, u0, k0) ==
    [shape |-> <<R, C, B>>,
     at |-> [u \in Positions(R, C) |->
               [k \in Range(B) |-> IF u = u0 /\ k = k0 THEN 2 ELSE 0]]]

InputGrids ==
    UNION {{ZeroGrid(R, C, B), CodedGrid(R, C, B)}
             \cup {SingleBinGrid(R, C, B, u0, k0) :
                     u0 \in Positions(R, C), k0 \in Range(B)} :
           R \in 1..MaxGrid, C \in 1..MaxGrid, B \in 1..MaxBins}

BlockSizes == 1..(MaxGrid + 1)
StepSizes == 1..MaxStep

\* The histogram grid a successful create_image_histograms returns, as the
\* argument of create_descriptor.
AsGrid(res) == [shape |-> res.shape, at |-> res.histogram_grid]

\* ----------------------------------------------------------- state machine
VARIABLES
    pc,              \* "idle"; "cells", "blocks": a loop being run unit by unit;
                     \* "joined": all units of such a run are done
    op,              \* the function called: "none" before any call
    image_gray,      \* argument of the image functions
    cell_size,       \* argument of create_image_histograms
    histogram_grid,  \* argument of create_descriptor
    block_size,      \* argument of create_descriptor
    step_size,       \* argument of create_descriptor
    result,          \* what the call returned or raised
    st,              \* unit-by-unit run: the output grid being filled
    pending,         \* unit-by-unit run: the units not yet run
    log              \* unit-by-unit run: unit -> [reads, slot] of the units run

vars == <<pc, op, image_gray, cell_size, histogram_grid, block_size, step_size,
          result, st, pending, log>>

Init ==
    /\ pc = "idle" /\ op = "none"
    /\ image_gray = None /\ cell_size = None
    /\ histogram_grid = None /\ block_size = None /\ step_size = None
    /\ result = None /\ st = None /\ pending = {} /\ log = << >>

call_compute_image_gradients ==
    /\ pc = "idle" /\ op = "none"
    /\ \E img \in Images :
        /\ image_gray' = img
        /\ result' = compute_image_gradients(img)
    /\ op' = "compute_image_gradients"
    /\ UNCHANGED <<pc, cell_size, histogram_grid, block_size, step_size,
                   st, pending, log>>

call_compute_magnitudes_and_orientations ==
    /\ pc = "idle" /\ op = "none"
    /\ \E img \in Images :
        /\ image_gray' = img
        /\ result' = compute_magnitudes_and_orientations(img)
    /\ op' = "compute_magnitudes_and_orientations"
    /\ UNCHANGED <<pc, cell_size, histogram_grid, block_size, step_size,
                   st, pending, log>>

call_create_image_histograms ==
    /\ pc = "idle" /\ op = "none"
    /\ \E img \in Images, c \in CellSizes :
        /\ image_gray' = img
        /\ cell_size' = c
        /\ result' = create_image_histograms(img, c)
    /\ op' = "create_image_histograms"
    /\ UNCHANGED <<pc, histogram_grid, block_size, step_size, st, pending, log>>

call_create_descriptor ==
    /\ pc = "idle" /\ op = "none"
    /\ \E g \in InputGrids, K \in BlockSizes, S \in StepSizes :
        /\ histogram_grid' = g
        /\ block_size' = K
        /\ step_size' = S
        /\ result' = create_descriptor(g, K, S)
    /\ op' = "create_descriptor"
    /\ UNCHANGED <<pc, image_gray, cell_size, st, pending, log>>

\* The pipeline: the grid create_image_histograms returned is described,
\* with the default block_size=2 and step_size=1.
call_create_descriptor_on_result ==
    /\ pc = "idle" /\ op = "create_image_histograms"
    /\ result.status = "ok"
    /\ histogram_grid' = AsGrid(result)
    /\ block_size' = default_block_size
    /\ step_size' = default_step_size
    /\ result' = create_descriptor(AsGrid(result), default_block_size,
                                   default_step_size)
    /\ op' = "create_descriptor"
    /\ UNCHANGED <<pc, image_gray, cell_size, st, pending, log>>

\* create_image_histograms with the iterations of its loop run as
\* independent units of work, in any order.
run_cells_begin ==
    /\ pc = "idle" /\ op = "none"
    /\ \E img \in Images, c \in CellSizes \ {0} :
        LET units == cell_units(Rows(img), Cols(img), c)
        IN  /\ Len(units) <= MaxUnits
            /\ cells_begin(img, c).status = "ok"
            /\ image_gray' = img
            /\ cell_size' = c
            /\ st' = cells_begin(img, c)
            /\ pending' = {units[n] : n \in 1..Len(units)}
    /\ pc' = "cells"
    /\ op' = "create_image_histograms"
    /\ UNCHANGED <<histogram_grid, block_size, step_size, result, log>>

run_cell ==
    /\ pc = "cells" /\ st.status = "ok"
    /\ \E u \in pending :
        LET mo == compute_magnitudes_and_orientations(image_gray)
        IN  /\ st' = cell_unit(st, mo, cell_size, u)
            /\ pending' = pending \ {u}
            /\ log' = log @@ (u :> [reads |-> IF Len(mo.orientation.shape) = 2
                                               THEN cell_slice(mo.orientation,
                                                               cell_size, u[1], u[2])
                                               ELSE {},
                                    slot |-> cell_slot(u)])
    /\ UNCHANGED <<pc, op, image_gray, cell_size, histogram_grid, block_size,
                   step_size, result>>

run_cells_end ==
    /\ pc = "cells"
    /\ pending = {} \/ st.status # "ok"
    /\ result' = st
    /\ st' = None
    /\ pending' = {}
    /\ pc' = "joined"
    /\ UNCHANGED <<op, image_gray, cell_size, histogram_grid, block_size,
                   step_size, log>>

\* create_descriptor with the iterations of its loop run as independent
\* units of work, in any order.
run_blocks_begin ==
    /\ pc = "idle" /\ op = "none"
    /\ \E g \in InputGrids, K \in BlockSizes, S \in StepSizes :
        LET b == blocks_begin(g, K, S)
        IN  /\ b.status = "ok"
            /\ Len(block_units(b.shape)) <= MaxUnits
            /\ histogram_grid' = g
            /\ block_size' = K
            /\ step_size' = S
            /\ st' = b
            /\ pending' = {block_units(b.shape)[n] : n \in 1..Len(block_units(b.shape))}
    /\ pc' = "blocks"
    /\ op' = "create_descriptor"
    /\ UNCHANGED <<image_gray, cell_size, result, log>>

run_block ==
    /\ pc = "blocks" /\ st.status = "ok"
    /\ \E u \in pending :
        /\ st' = block_unit(st, histogram_grid, block_size, step_size, u)
        /\ pending' = pending \ {u}
        /\ log' = log @@ (u :> [reads |-> block_slice(histogram_grid, block_size,
                                                      step_size, u[1], u[2]).cells,
                                slot |-> block_slot(u)])
    /\ UNCHANGED <<pc, op, image_gray, cell_size, histogram_grid, block_size,
                   step_size, result>>

run_blocks_end ==
    /\ pc = "blocks"
    /\ pending = {} \/ st.status # "ok"
    /\ result' = st
    /\ st' = None
    /\ pending' = {}
    /\ pc' = "joined"
    /\ UNCHANGED <<op, image_gray, cell_size, histogram_grid, block_size,
                   step_size, log>>

Next ==
    \/ call_compute_image_gradients
    \/ call_compute_magnitudes_and_orientations
    \/ call_create_image_histograms
    \/ call_create_descriptor
    \/ call_create_descriptor_on_result
    \/ run_cells_begin
    \/ run_cell
    \/ run_cells_end
    \/ run_blocks_begin
    \/ run_block
    \/ run_blocks_end

Spec == Init /\ [][Next]_vars

\* -------------------------------------------------------------- properties
GradientsCalled == pc = "idle" /\ op = "compute_image_gradients"
HistogramsCalled == pc = "idle" /\ op = "create_image_histograms"
DescriptorCalled == pc = "idle" /\ op = "create_descriptor"

\* n is a multiple of c.
IsMultiple(n, c) == \E k \in (-n)..n : n = k * c

\* The kernel-weighted sum over the 3x3 neighbourhood of pixel p, a neighbour
\* outside the image counting 0.
NeighbourSum(img, kernel, p) ==
    LET inside == {d \in (1..3) \X (1..3) :
                     <<p[1] + d[1] - 2, p[2] + d[2] - 2>> \in DOMAIN img.at}
    IN  SumOver([d \in inside |->
                   kernel[d[1]][d[2]] * img.at[<<p[1] + d[1] - 2, p[2] + d[2] - 2>>]],
                inside)

\* What the zero border leaves of the kernels at pixel p of an N x M image of
\* constant intensity 1 (N, M >= 3): 0 away from the border.
BorderX(p, N, M) ==
    (IF p[2] = 0 THEN 1 ELSE IF p[2] = M - 1 THEN -1 ELSE 0)
        * (IF p[1] = 0 \/ p[1] = N - 1 THEN 3 ELSE 4)

BorderY(p, N, M) ==
    (IF p[1] = 0 THEN -1 ELSE IF p[1] = N - 1 THEN 1 ELSE 0)
        * (IF p[2] = 0 \/ p[2] = M - 1 THEN 3 ELSE 4)

IsConstant(img, v) == \A p \in DOMAIN img.at : img.at[p] = v

ValuesAreNeighbourSums ==
    /\ DOMAIN result.Ix.at = DOMAIN image_gray.at
    /\ DOMAIN result.Iy.at = DOMAIN image_gray.at
    /\ \A p \in DOMAIN image_gray.at :
        /\ result.Ix.at[p] = NeighbourSum(image_gray, SOBEL_X_KERNEL, p)
        /\ result.Iy.at[p] = NeighbourSum(image_gray, SOBEL_Y_KERNEL, p)

\* C5: for an image of at least 3x3 pixels compute_image_gradients returns Ix
\* and Iy of the input's shape, each value the Kx (Ky) weighted sum over the
\* pixel's 3x3 neighbourhood with neighbours outside the image taken as 0;
\* for a constant image the values are 0 off the border and the zero-border
\* values on it.
C5_ZeroPaddedGradients ==
    (GradientsCalled /\ Rows(image_gray) >= 3 /\ Cols(image_gray) >= 3) =>
        /\ result.status = "ok"
        /\ result.Ix.shape = image_gray.shape
        /\ result.Iy.shape = image_gray.shape
        /\ ValuesAreNeighbourSums
        /\ \A v \in PixelValues :
             IsConstant(image_gray, v) =>
                \A p \in DOMAIN image_gray.at :
                    /\ result.Ix.at[p] = v * BorderX(p, Rows(image_gray), Cols(image_gray))
                    /\ result.Iy.at[p] = v * BorderY(p, Rows(image_gray), Cols(image_gray))

C5_Witness ==
    /\ GradientsCalled
    /\ image_gray.shape = <<4, 4>>
    /\ IsConstant(image_gray, 1)
    /\ result.Ix.at[<<1, 1>>] = 0 /\ result.Iy.at[<<2, 2>>] = 0
    /\ result.Ix.at[<<0, 0>>] = 3 /\ result.Iy.at[<<0, 0>>] = -3
    /\ result.Ix.at[<<1, 3>>] = -4 /\ result.Iy.at[<<3, 1>>] = 4

\* C8 as stated: compute_image_gradients fails for every image with fewer
\* than 3 rows or fewer than 3 columns.
C8_SmallImagesFail ==
    (GradientsCalled /\ (Rows(image_gray) < 3 \/ Cols(image_gray) < 3)) =>
        result.status # "ok"

\* C8 amended: for an image with fewer than 3 rows or columns (and at least
\* one of each) compute_image_gradients raises nothing: it returns Ix and Iy
\* with one value per pixel, the zero-padded weighted sum of C5.
C8_SmallImagesReturn ==
    (GradientsCalled /\ (Rows(image_gray) < 3 \/ Cols(image_gray) < 3)) =>
        /\ result.status = "ok"
        /\ ValuesAreNeighbourSums

C8_Witness ==
    /\ GradientsCalled
    /\ image_gray.shape = <<2, 2>>
    /\ IsConstant(image_gray, 1)
    /\ result.status = "ok"
    /\ result.Ix.at[<<0, 0>>] = 3 /\ result.Ix.at[<<1, 1>>] = -3
    /\ result.Iy.at[<<0, 0>>] = -3 /\ result.Iy.at[<<1, 1>>] = 3

\* The magnitude-weighted orientation histogram of the cell_size x cell_size
\* cell covering pixel rows [i*c, (i+1)*c) and columns [j*c, (j+1)*c).
CellPixels(c, u) ==
    {p \in Positions((u[1] + 1) * c, (u[2] + 1) * c) : p[1] >= u[1] * c /\ p[2] >= u[2] * c}

CellHistogram(img, c, u) ==
    LET mo == compute_magnitudes_and_orientations(img)
    IN  create_histogram([p \in CellPixels(c, u) |-> mo.grad_magnitude.at[p]],
                         [p \in CellPixels(c, u) |-> mo.orientation.at[p]],
                         num_bins).histogram

\* C1 as stated: for every image whose N rows and M columns are both
\* multiples of the cell size, create_image_histograms returns an
\* (N/C) x (M/C) x 8 grid whose entry (i, j) is the histogram of the cell
\* covering rows [i*C, (i+1)*C) and columns [j*C, (j+1)*C).  (Stated for the
\* images of at least 2 rows and 2 columns; on a thinner image the call
\* already fails on the squeezed gradient arrays.)
C1_GridOfCellHistograms ==
    (/\ HistogramsCalled
     /\ Rows(image_gray) >= 2 /\ Cols(image_gray) >= 2
     /\ cell_size > 0
     /\ IsMultiple(Rows(image_gray), cell_size)
     /\ IsMultiple(Cols(image_gray), cell_size)) =>
        LET R == Rows(image_gray) \div cell_size
            C == Cols(image_gray) \div cell_size
        IN  /\ result.status = "ok"
            /\ result.shape = <<R, C, 8>>
            /\ DOMAIN result.histogram_grid = Positions(R, C)
            /\ \A u \in Positions(R, C) :
                 result.histogram_grid[u] = CellHistogram(image_gray, cell_size, u)

\* C2 as stated: no pixel is dropped from a cell's histogram: every rounded
\* orientation lies within the bin-edge range, so the bin weights of each
\* cell sum to the magnitudes of all pixels of the cell.
C2_NoPixelDropped ==
    (HistogramsCalled /\ result.status = "ok") =>
        LET mo == compute_magnitudes_and_orientations(image_gray)
        IN  /\ \A p \in DOMAIN mo.orientation.at :
                 /\ result.bin_ticks[0] <= around(mo.orientation.at[p], 5)
                 /\ around(mo.orientation.at[p], 5) <= result.bin_ticks[num_bins]
            /\ \A u \in DOMAIN result.histogram_grid :
                 SumTo(result.histogram_grid[u], num_bins)
                    = SumOver(mo.grad_magnitude.at,
                              CellPixels(cell_size, u) \cap DOMAIN mo.grad_magnitude.at)

NoHistogramGrid == "histogram_grid" \notin DOMAIN result

\* C6: create_image_histograms fails, returning no histogram grid, whenever
\* the number of rows or of columns is not a multiple of the cell size: the
\* alignment check raises (an AssertionError, or the ZeroDivisionError of
\* its division by a cell size of 0).
C6_UnalignedFails ==
    (/\ HistogramsCalled
     /\ \/ ~IsMultiple(Rows(image_gray), cell_size)
        \/ ~IsMultiple(Cols(image_gray), cell_size)) =>
        /\ result.status \in {"AssertionError", "ZeroDivisionError"}
        /\ NoHistogramGrid

C6_Witness ==
    /\ HistogramsCalled
    /\ image_gray.shape = <<4, 4>>
    /\ cell_size = 3
    /\ result = [status |-> "AssertionError"]

\* C7: create_image_histograms fails, returning no histogram grid, for every
\* cell size that is zero, negative, or larger than an image dimension.
C7_InvalidCellSizeFails ==
    (/\ HistogramsCalled
     /\ \/ cell_size <= 0
        \/ cell_size > Rows(image_gray)
        \/ cell_size > Cols(image_gray)) =>
        /\ result.status \in {"AssertionError", "ZeroDivisionError", "ValueError"}
        /\ NoHistogramGrid

C7_Witness ==
    /\ HistogramsCalled
    /\ image_gray.shape = <<2, 4>>
    /\ cell_size = -2
    /\ result = [status |-> "ValueError"]

\* The sum of the squares of the elements of the block_size x block_size
\* window of cells that starts at cell (i*step_size, j*step_size).
WindowNorm2(grid, K, S, u) ==
    SumTo([a \in Range(K) |->
            SumTo([b \in Range(K) |->
                    SumTo([k \in Range(grid.shape[3]) |->
                            grid.at[<<u[1] * S + a, u[2] * S + b>>][k]
                              * grid.at[<<u[1] * S + a, u[2] * S + b>>][k]],
                          grid.shape[3])],
                  K)],
          K)

\* C3: for block_size K <= R, C and step_size S >= 1 create_descriptor returns
\* a grid of floor((R-(K-1))/S) x floor((C-(K-1))/S) vectors of length B*K^2;
\* the window of entry (i, j) lies inside the grid and element (a*K+b)*B+k of
\* the vector comes from bin k of cell (i*S+a, j*S+b).
C3_BlockGridLayout ==
    (/\ DescriptorCalled
     /\ block_size <= histogram_grid.shape[1]
     /\ block_size <= histogram_grid.shape[2]) =>
        LET R == histogram_grid.shape[1]
            C == histogram_grid.shape[2]
            B == histogram_grid.shape[3]
            K == block_size
            S == step_size
            rows == (R - (K - 1)) \div S
            cols == (C - (K - 1)) \div S
        IN  /\ result.status = "ok"
            /\ result.shape = <<rows, cols, B * K * K>>
            /\ DOMAIN result.block_grid = Positions(rows, cols)
            /\ \A u \in Positions(rows, cols) :
                /\ u[1] * S + K <= R
                /\ u[2] * S + K <= C
                /\ DOMAIN result.block_grid[u].num = Range(B * K * K)
                /\ \A a \in Range(K), b \in Range(K), k \in Range(B) :
                     result.block_grid[u].num[(a * K + b) * B + k]
                        = histogram_grid.at[<<u[1] * S + a, u[2] * S + b>>][k]

\* A 5 x 5 grid of distinct values described with block_size 2 and step_size
\* 2: block (1, 1) is the window that starts at cell (2, 2), not at (1, 1).
C3_Witness ==
    /\ DescriptorCalled
    /\ histogram_grid = CodedGrid(5, 5, 2)
    /\ block_size = 2 /\ step_size = 2
    /\ result.status = "ok"
    /\ result.shape = <<2, 2, 8>>
    /\ result.block_grid[<<1, 1>>].num[0] = histogram_grid.at[<<2, 2>>][0]
    /\ result.block_grid[<<1, 1>>].num[0] # histogram_grid.at[<<1, 1>>][0]
    /\ result.block_grid[<<1, 1>>].num[7] = histogram_grid.at[<<3, 3>>][1]
    /\ result.block_grid[<<1, 0>>].num[2] = histogram_grid.at[<<2, 1>>][0]

\* C4: in the output of create_descriptor every vector whose window is not
\* all zero is the window divided by its Euclidean norm, so the squares of
\* its elements sum to 1; a vector whose window is all zero is all zero and
\* no division is performed.
C4_UnitNormOrZero ==
    (DescriptorCalled /\ result.status = "ok") =>
        \A u \in DOMAIN result.block_grid :
            LET v == result.block_grid[u]
                w2 == WindowNorm2(histogram_grid, block_size, step_size, u)
            IN  IF w2 = 0
                THEN /\ ~v.divided
                     /\ \A n \in DOMAIN v.num : v.num[n] = 0
                ELSE /\ v.divided
                     /\ v.den2 = w2
                     /\ SumTo([n \in DOMAIN v.num |-> v.num[n] * v.num[n]],
                              Cardinality(DOMAIN v.num)) = v.den2

C4_Witness ==
    /\ DescriptorCalled
    /\ result.status = "ok"
    /\ \E u \in DOMAIN result.block_grid : result.block_grid[u].divided
    /\ \E u \in DOMAIN result.block_grid :
         /\ ~result.block_grid[u].divided
         /\ \A n \in DOMAIN result.block_grid[u].num : result.block_grid[u].num[n] = 0

\* C9: create_descriptor fails on its assertion, before any block is
\* computed and returning no block grid, whenever block_size exceeds the
\* number of cell rows or of cell columns.
C9_OversizedBlockFails ==
    (/\ DescriptorCalled
     /\ \/ block_size > histogram_grid.shape[1]
        \/ block_size > histogram_grid.shape[2]) =>
        /\ result.status = "AssertionError"
        /\ "block_grid" \notin DOMAIN result

C9_Witness ==
    /\ DescriptorCalled
    /\ histogram_grid.shape[1] = 3 /\ histogram_grid.shape[2] = 1
    /\ block_size = 2
    /\ result = [status |-> "AssertionError"]

\* Unit-by-unit runs.
InRun == pc \in {"cells", "blocks", "joined"}

SlotsDistinct ==
    \A u \in DOMAIN log, v \in DOMAIN log : u # v => log[u].slot # log[v].slot

ReadsDisjoint ==
    \A u \in DOMAIN log, v \in DOMAIN log :
        u # v => log[u].reads \cap log[v].reads = {}

\* What the call returns when its loop runs in the order of the code.
Sequential ==
    IF op = "create_image_histograms"
    THEN create_image_histograms(image_gray, cell_size)
    ELSE create_descriptor(histogram_grid, block_size, step_size)

\* C10 as stated: with the cells of create_image_histograms and the blocks of
\* create_descriptor run as independent units in any order, two distinct
\* units read disjoint slices of the input and write distinct output slots,
\* and the final grid is that of the sequential run.
C10_DisjointReadsAndWrites ==
    InRun =>
        /\ SlotsDistinct
        /\ ReadsDisjoint
        /\ pc = "joined" => result = Sequential

\* C10 amended: two distinct units write distinct output slots and only read
\* the input; two cells read disjoint slices; two blocks read disjoint
\* windows when step_size >= block_size, and may read the same cells when
\* step_size < block_size; the final grid is that of the sequential run.
C10_DistinctSlotsSameResult ==
    InRun =>
        /\ SlotsDistinct
        /\ (op = "create_image_histograms" \/ step_size >= block_size) => ReadsDisjoint
        /\ pc = "joined" => result = Sequential

C10_Witness ==
    /\ pc = "joined"
    /\ op = "create_descriptor"
    /\ block_size = 2 /\ step_size = 1
    /\ histogram_grid = CodedGrid(3, 3, 1)
    /\ Cardinality(DOMAIN log) = 4
    /\ log[<<0, 0>>].reads \cap log[<<1, 1>>].reads = {<<1, 1>>}
    /\ result.status = "ok"
    /\ result = Sequential

====
